---- MODULE Spec2Model ----
(***************************************************************************)
(* Model of the two instrumented services of ECS-OTel-Lab:                 *)
(*   src/app/main.py   the poller  (pokemon pinger, supervisor loop)       *)
(*   src/app2/main.py  the server  (pokemon catcher, Flask + heartbeat)    *)
(* Both start by resolving the resource attributes (lines 31-50 of either  *)
(* file, the same code).                                                   *)
(*                                                                         *)
(* Three specifications share the variables:                               *)
(*   ResolverSpec  the start-up resolution of the resource attributes      *)
(*   Spec          the poller's supervisor loop (LiveSpec adds fairness)   *)
(*   ServerSpec    the server's request threads and heartbeat thread       *)
(*                                                                         *)
(* Text is a sequence of tokens: a token is one of the characters the      *)
(* code looks at ("," "=" " ") or a chunk of text free of them.            *)
(***************************************************************************)
EXTENDS Integers, Sequences, FiniteSets, TLC

VARIABLES
    \* ---- start-up, both services (lines 31-50)
    start_pc,               \* position in the start-up code
    service_name,           \* line 31
    resource_env_vars,      \* line 40, OTEL_RESOURCE_ATTRIBUTES
    resource_attributes,    \* lines 36-45, the dict being built
    pair_i,                 \* index of the for loop of line 43
    warnings,               \* what logger.warning of line 48 has logged
    resource,               \* line 50, empty until built
    \* ---- poller (src/app/main.py lines 94-152)
    pc,                     \* position in the poller
    interval_env,           \* the environment's INTERVAL_SEC, "unset" or text
    INTERVAL_SEC,           \* line 94
    iter,                   \* number of Work Units started
    loop_span,              \* the span of the current/last Work Unit
    pokemon_id,             \* line 101/103
    response,               \* line 112, NoResponse or [status_code, body]
    exc,                    \* the exception in flight, NoException or [type, msg]
    pokemon_fetch_counter,          \* line 75, the add() calls made on it
    pokemon_fetch_success_counter,  \* line 80
    pokemon_fetch_error_counter,    \* line 85
    entry,                  \* the three totals when the Work Unit started
    sleeps,                 \* the durations time.sleep was called with and returned
    \* ---- server (src/app2/main.py lines 91-131)
    main_pc,                \* position of the server's main thread
    hb_interval,            \* line 91, the server's INTERVAL_SEC
    rpc,                    \* position of each request thread
    pkmn_id,                \* path parameter of each request
    caught,                 \* line 105, per request
    log,                    \* line 106, per request
    current_span,           \* attributes of each request's span
    returned,               \* line 120, per request: "none" or the body
    pokemon_catch_attempt_counter,  \* line 71
    pokemon_catch_success_counter,  \* line 76
    pokemon_catch_failure_counter,  \* line 81
    server_log,             \* records written by logger.info in the server
    hb_pc,                  \* position of the heartbeat thread
    hb_ticks,               \* heartbeat records emitted
    hb_sleeps               \* durations the heartbeat slept

startVars  == <<start_pc, service_name, resource_env_vars, resource_attributes,
                pair_i, warnings, resource>>
pollerVars == <<pc, interval_env, INTERVAL_SEC, iter, loop_span, pokemon_id,
                response, exc, pokemon_fetch_counter, pokemon_fetch_success_counter,
                pokemon_fetch_error_counter, entry, sleeps>>
serverVars == <<main_pc, hb_interval, rpc, pkmn_id, caught, log, current_span, returned,
                pokemon_catch_attempt_counter, pokemon_catch_success_counter,
                pokemon_catch_failure_counter, server_log, hb_pc, hb_ticks, hb_sleeps>>
vars == <<startVars, pollerVars, serverVars>>

(***************************************************************************)
(* Bounds of the model                                                     *)
(***************************************************************************)
\* longest OTEL_RESOURCE_ATTRIBUTES text, in tokens
MaxLen == 6
\* Work Units the poller starts
MaxIter == 2
\* concurrent catch requests
MaxRequests == 2
\* heartbeat ticks
MaxTicks == 2

(***************************************************************************)
(* Text: what str.split and str.strip do                                   *)
(***************************************************************************)
Comma == ","
Equals == "="
Space == " "
\* the tokens an override text is made of
Tokens == {"service.name", "a", Equals, Comma, Space}

\* the texts of n tokens
TextsOfLen(n) == [1..n -> Tokens]

\* index of the first sep in s, 0 when there is none
RECURSIVE Find(_, _, _)
Find(s, sep, from) ==
    IF from > Len(s) THEN 0
    ELSE IF s[from] = sep THEN from
    ELSE Find(s, sep, from + 1)

\* s.split(sep): every piece, empty ones included; "" gives one empty piece
RECURSIVE Split(_, _)
Split(s, sep) ==
    LET i == Find(s, sep, 1)
    IN  IF i = 0 THEN <<s>>
        ELSE <<SubSeq(s, 1, i - 1)>> \o Split(SubSeq(s, i + 1, Len(s)), sep)

\* s.split(sep, 1): at most one cut, at the first sep
SplitOnce(s, sep) ==
    LET i == Find(s, sep, 1)
    IN  IF i = 0 THEN <<s>>
        ELSE <<SubSeq(s, 1, i - 1), SubSeq(s, i + 1, Len(s))>>

RECURSIVE LStrip(_)
LStrip(s) ==
    IF s # <<>> /\ Head(s) = Space THEN LStrip(Tail(s)) ELSE s

RECURSIVE RStrip(_)
RStrip(s) ==
    IF s # <<>> /\ s[Len(s)] = Space THEN RStrip(SubSeq(s, 1, Len(s) - 1)) ELSE s

\* s.strip()
Strip(s) == RStrip(LStrip(s))

(***************************************************************************)
(* Start-up: the resource attributes (lines 31-50 of both services)        *)
(***************************************************************************)
SERVICE_NAME == <<"service.name">>
DEPLOYMENT_ENVIRONMENT == <<"deployment.environment">>
\* the two services' defaults of OTEL_SERVICE_NAME
ServiceNames == {<<"pokemon-pinger-default">>, <<"pokemon-catcher-default">>}
deployment_environment == <<"unknown">>

\* lines 36-39
Defaults(name) ==
    (SERVICE_NAME :> name) @@ (DEPLOYMENT_ENVIRONMENT :> deployment_environment)

\* resource_attributes[key] = value
SetItem(attrs, key, value) == (key :> value) @@ attrs

\* line 43, the sequence the for loop walks
Pairs == Split(resource_env_vars, Comma)

\* line 44: key, value = pair.split('=', 1) raises ValueError on a single piece
Unpacks(pair) == Len(SplitOnce(pair, Equals)) = 2

\* lines 44-45 cutting at the last "=" of the pair, as rsplit would
PairAppliedLastCut(attrs, pair) ==
    LET eqs == {j \in 1..Len(pair) : pair[j] = Equals}
        i == CHOOSE j \in eqs : \A h \in eqs : h <= j
    IN  SetItem(attrs, Strip(SubSeq(pair, 1, i - 1)),
                Strip(SubSeq(pair, i + 1, Len(pair))))

\* lines 44-45 for one pair
PairApplied(attrs, pair) ==
    LET kv == SplitOnce(pair, Equals)
    IN  SetItem(attrs, Strip(kv[1]), Strip(kv[2]))

StartInit ==
    /\ start_pc = "defaults"
    /\ service_name \in ServiceNames
    /\ \E n \in 0..MaxLen : resource_env_vars \in TextsOfLen(n)
    /\ resource_attributes = <<>>
    /\ pair_i = 0
    /\ warnings = <<>>
    /\ resource = <<>>

\* lines 36-41: the defaults, then the test of the override text
LoadDefaults ==
    /\ start_pc = "defaults"
    /\ resource_attributes' = Defaults(service_name)
    /\ IF resource_env_vars # <<>>
       THEN start_pc' = "pairs" /\ pair_i' = 1
       ELSE start_pc' = "resource" /\ pair_i' = pair_i
    /\ UNCHANGED <<pollerVars, serverVars, service_name, resource_env_vars, warnings, resource>>

\* lines 43-45: one turn of the for loop on a pair that unpacks
ApplyPair ==
    /\ start_pc = "pairs"
    /\ Unpacks(Pairs[pair_i])
    /\ resource_attributes' = PairApplied(resource_attributes, Pairs[pair_i])
    /\ IF pair_i < Len(Pairs)
       THEN start_pc' = "pairs" /\ pair_i' = pair_i + 1
       ELSE start_pc' = "resource" /\ pair_i' = pair_i
    /\ UNCHANGED <<pollerVars, serverVars, service_name, resource_env_vars, warnings, resource>>

\* a handler inside the loop: the pair is skipped and the loop goes on
ParseFailedSkips ==
    /\ start_pc = "pairs"
    /\ ~Unpacks(Pairs[pair_i])
    /\ warnings' = Append(warnings, resource_env_vars)
    /\ IF pair_i < Len(Pairs)
       THEN start_pc' = "pairs" /\ pair_i' = pair_i + 1
       ELSE start_pc' = "resource" /\ pair_i' = pair_i
    /\ UNCHANGED <<pollerVars, serverVars, service_name, resource_env_vars, resource_attributes, resource>>

\* no handler: the ValueError of line 44 ends the start-up
ParseFailedEscapes ==
    /\ start_pc = "pairs"
    /\ ~Unpacks(Pairs[pair_i])
    /\ start_pc' = "crashed"
    /\ UNCHANGED <<pollerVars, serverVars, service_name, resource_env_vars, resource_attributes, pair_i,
                   warnings, resource>>

\* a handler that starts over from the defaults
ParseFailedRollsBack ==
    /\ start_pc = "pairs"
    /\ ~Unpacks(Pairs[pair_i])
    /\ warnings' = Append(warnings, resource_env_vars)
    /\ resource_attributes' = Defaults(service_name)
    /\ start_pc' = "resource"
    /\ UNCHANGED <<pollerVars, serverVars, service_name, resource_env_vars, pair_i, resource>>

\* lines 44, 47-48: the unpacking raises, the handler around the whole loop
\* logs one warning and the loop is over
ParseFailed ==
    /\ start_pc = "pairs"
    /\ ~Unpacks(Pairs[pair_i])
    /\ warnings' = Append(warnings, resource_env_vars)
    /\ start_pc' = "resource"
    /\ UNCHANGED <<pollerVars, serverVars, service_name, resource_env_vars, resource_attributes, pair_i,
                   resource>>

\* line 50, and on to the telemetry set-up of lines 52-90
BuildResource ==
    /\ start_pc = "resource"
    /\ resource' = resource_attributes
    /\ start_pc' = "telemetry"
    /\ UNCHANGED <<pollerVars, serverVars, service_name, resource_env_vars, resource_attributes, pair_i,
                   warnings>>

(***************************************************************************)
(* Telemetry objects as the code uses them: a counter is the sequence of   *)
(* add() calls made on it, a span is its attributes, events, status and    *)
(* whether it is still open.                                               *)
(***************************************************************************)
\* no exception in flight, no response yet, no span yet
NoException == [type |-> "none", msg |-> ""]
NoResponse == [status_code |-> 0, body |-> [kind |-> "none", name |-> "absent"]]

\* counter.add(amount, attributes)
Add(counter, amount, attributes) ==
    Append(counter, [amount |-> amount, attributes |-> attributes])

\* the value a counter has accumulated
RECURSIVE Total(_)
Total(counter) ==
    IF counter = <<>> THEN 0 ELSE Head(counter).amount + Total(Tail(counter))

Unset == [code |-> "UNSET", description |-> ""]

\* tracer.start_as_current_span(...) / trace.get_current_span()
NewSpan == [open |-> TRUE, attributes |-> <<>>, events |-> <<>>, status |-> Unset]

NoSpan == [open |-> FALSE, attributes |-> <<>>, events |-> <<>>, status |-> Unset]

\* span.set_attribute(key, value)
SetAttribute(span, key, value) ==
    [span EXCEPT !.attributes = (key :> value) @@ @]

\* span.set_status(Status(code, description)); a status of OK is final and
\* Status(StatusCode.OK) carries no description
SetStatus(span, code, description) ==
    IF span.status.code = "OK" THEN span
    ELSE [span EXCEPT !.status = [code |-> code, description |-> description]]

\* span.record_exception(e)
RecordException(span, e) ==
    [span EXCEPT !.events = Append(@, [name |-> "exception", type |-> e.type,
                                       message |-> e.msg])]

(***************************************************************************)
(* Poller: configuration and the outcomes of the network call              *)
(***************************************************************************)
\* line 94, the default of INTERVAL_SEC
DefaultInterval == 30
\* line 103, random.randint(1, 300)
MinId == 1
MaxId == 300
\* the ids the model draws: both ends of the range
PokemonIds == {MinId, MaxId}

Digits == <<"0", "1", "2", "3", "4", "5", "6", "7", "8", "9">>
DigitValue(c) == (CHOOSE i \in 1..10 : Digits[i] = c) - 1
IsDigit(c) == \E i \in 1..10 : Digits[i] = c

\* the value of a non-empty run of digits
RECURSIVE Decimal(_)
Decimal(t) ==
    IF Len(t) = 1 THEN DigitValue(t[1])
    ELSE 10 * Decimal(SubSeq(t, 1, Len(t) - 1)) + DigitValue(t[Len(t)])

AllDigits(t) == t # <<>> /\ \A i \in 1..Len(t) : IsDigit(t[i])

\* int(text) succeeds: an optional sign and digits
IsIntText(t) ==
    \/ AllDigits(t)
    \/ t # <<>> /\ Head(t) = "-" /\ AllDigits(Tail(t))

\* int(text)
ParseInt(t) ==
    IF Head(t) = "-" THEN 0 - Decimal(Tail(t)) ELSE Decimal(t)

\* what the environment may hold in INTERVAL_SEC
IntervalEnvs == {"unset", <<"1", "0">>, <<"0">>, <<"-", "1">>, <<"x">>}

\* bodies of a response: a JSON object with or without "name", JSON that is
\* no object, text that is no JSON
Bodies == { [kind |-> "object", name |-> "bulbasaur"],
            [kind |-> "object", name |-> "absent"],
            [kind |-> "array",  name |-> "absent"],
            [kind |-> "text",   name |-> "absent"] }

\* what session.get can return
Responses ==
    {[status_code |-> 200, body |-> b] : b \in Bodies}
    \cup {[status_code |-> s, body |-> [kind |-> "text", name |-> "absent"]] :
            s \in {404, 500}}

\* what session.get(url, timeout=5) can raise
NetworkErrors ==
    { [type |-> "ConnectionError", msg |-> "connection refused"],
      [type |-> "ReadTimeout",     msg |-> "read timed out"] }

\* lines 117-118: response.json() and data.get raise on these bodies
JsonDecodeError == [type |-> "JSONDecodeError", msg |-> "expecting value"]
AttributeError  == [type |-> "AttributeError", msg |-> "no attribute get"]
ParseError(body) ==
    IF body.kind = "text" THEN JsonDecodeError ELSE AttributeError
Parses(body) == body.kind = "object"

\* line 118: data.get("name", "unknown")
NameOf(body) == IF body.name = "absent" THEN "unknown" ELSE body.name

\* time.sleep raises ValueError on a negative duration
SleepError == [type |-> "ValueError", msg |-> "sleep length must be non-negative"]
IntError   == [type |-> "ValueError", msg |-> "invalid literal for int()"]

Totals == [count   |-> Total(pokemon_fetch_counter),
           success |-> Total(pokemon_fetch_success_counter),
           error   |-> Total(pokemon_fetch_error_counter)]

PollerInit ==
    /\ pc = "startup"
    /\ interval_env \in IntervalEnvs
    /\ INTERVAL_SEC = 0
    /\ iter = 0
    /\ loop_span = NoSpan
    /\ pokemon_id = 0
    /\ response = NoResponse
    /\ exc = NoException
    /\ pokemon_fetch_counter = <<>>
    /\ pokemon_fetch_success_counter = <<>>
    /\ pokemon_fetch_error_counter = <<>>
    /\ entry = [count |-> 0, success |-> 0, error |-> 0]
    /\ sleeps = <<>>

\* line 94: INTERVAL_SEC = int(os.getenv("INTERVAL_SEC", 30)); int() raising
\* ends the process before the loop
ReadInterval ==
    /\ pc = "startup"
    /\ IF interval_env = "unset"
       THEN INTERVAL_SEC' = DefaultInterval /\ pc' = "loop" /\ exc' = exc
       ELSE IF IsIntText(interval_env)
       THEN INTERVAL_SEC' = ParseInt(interval_env) /\ pc' = "loop" /\ exc' = exc
       ELSE INTERVAL_SEC' = INTERVAL_SEC /\ pc' = "crashed" /\ exc' = IntError
    /\ UNCHANGED <<startVars, serverVars, interval_env, iter, loop_span, pokemon_id, response,
                   pokemon_fetch_counter, pokemon_fetch_success_counter,
                   pokemon_fetch_error_counter, entry, sleeps>>

\* lines 99-101: the next turn of while True opens the span
StartSpan ==
    /\ pc = "loop"
    /\ iter < MaxIter
    /\ iter' = iter + 1
    /\ loop_span' = NewSpan
    /\ pokemon_id' = 0
    /\ response' = NoResponse
    /\ entry' = Totals
    /\ pc' = "try"
    /\ UNCHANGED <<startVars, serverVars, interval_env, INTERVAL_SEC, exc, pokemon_fetch_counter,
                   pokemon_fetch_success_counter, pokemon_fetch_error_counter,
                   sleeps>>

\* lines 103-111 with the attempt counted before the id is assigned: the
\* label is the id of line 101
IdChosenAfterCount(id) ==
    /\ pokemon_id' = id
    /\ loop_span' = SetAttribute(loop_span, "pokemon.id.attempted", id)
    /\ pokemon_fetch_counter' =
          Add(pokemon_fetch_counter, 1, ("pokemon.id" :> ToString(pokemon_id)))

\* lines 103-111
IdChosen(id) ==
    /\ pokemon_id' = id
    /\ loop_span' = SetAttribute(loop_span, "pokemon.id.attempted", id)
    /\ pokemon_fetch_counter' =
          Add(pokemon_fetch_counter, 1, ("pokemon.id" :> ToString(id)))

ChooseId ==
    /\ pc = "try"
    /\ \E id \in PokemonIds : IdChosen(id)
    /\ pc' = "get"
    /\ UNCHANGED <<startVars, serverVars, interval_env, INTERVAL_SEC, iter, response, exc,
                   pokemon_fetch_success_counter, pokemon_fetch_error_counter,
                   entry, sleeps>>

\* line 112: the call returns a response
GetReturns ==
    /\ pc = "get"
    /\ response' \in Responses
    /\ pc' = "status"
    /\ UNCHANGED <<startVars, serverVars, interval_env, INTERVAL_SEC, iter, loop_span, pokemon_id, exc,
                   pokemon_fetch_counter, pokemon_fetch_success_counter,
                   pokemon_fetch_error_counter, entry, sleeps>>

\* line 112: the call raises (network failure, timeout)
GetRaises ==
    /\ pc = "get"
    /\ exc' \in NetworkErrors
    /\ pc' = "except"
    /\ UNCHANGED <<startVars, serverVars, interval_env, INTERVAL_SEC, iter, loop_span, pokemon_id,
                   response, pokemon_fetch_counter, pokemon_fetch_success_counter,
                   pokemon_fetch_error_counter, entry, sleeps>>

\* lines 113-114
StatusNoted(span, status) == SetAttribute(span, "http.status_code", status)

\* lines 117-127 with the success counted a second time
SuccessRecordedTwice(status) ==
    LET pokemon_name == NameOf(response.body)
        labels == ("pokemon.id" :> ToString(pokemon_id)) @@ ("pokemon.name" :> pokemon_name)
    IN  /\ loop_span' =
              SetStatus(SetAttribute(StatusNoted(loop_span, status),
                                     "pokemon.name", pokemon_name), "OK", "")
        /\ pokemon_fetch_success_counter' =
              Add(Add(pokemon_fetch_success_counter, 1, labels), 1, labels)
        /\ UNCHANGED pokemon_fetch_error_counter

\* lines 117-127
SuccessRecorded(status) ==
    LET pokemon_name == NameOf(response.body)
    IN  /\ loop_span' =
              SetStatus(SetAttribute(StatusNoted(loop_span, status),
                                     "pokemon.name", pokemon_name), "OK", "")
        /\ pokemon_fetch_success_counter' =
              Add(pokemon_fetch_success_counter, 1,
                  ("pokemon.id" :> ToString(pokemon_id))
                  @@ ("pokemon.name" :> pokemon_name))
        /\ UNCHANGED pokemon_fetch_error_counter

\* lines 113-127: status 200 and a body that parses
FetchSucceeded ==
    /\ pc = "status"
    /\ response.status_code = 200
    /\ Parses(response.body)
    /\ SuccessRecorded(response.status_code)
    /\ pc' = "finally"
    /\ UNCHANGED <<startVars, serverVars, interval_env, INTERVAL_SEC, iter, pokemon_id, response, exc,
                   pokemon_fetch_counter, entry, sleeps>>

\* lines 113-118: status 200 and response.json() or data.get raises
ParseRaises ==
    /\ pc = "status"
    /\ response.status_code = 200
    /\ ~Parses(response.body)
    /\ loop_span' = StatusNoted(loop_span, response.status_code)
    /\ exc' = ParseError(response.body)
    /\ pc' = "except"
    /\ UNCHANGED <<startVars, serverVars, interval_env, INTERVAL_SEC, iter, pokemon_id, response,
                   pokemon_fetch_counter, pokemon_fetch_success_counter,
                   pokemon_fetch_error_counter, entry, sleeps>>

\* lines 129-138 with the status label of line 132 left out
HttpErrorUnlabelled(status) ==
    LET error_message == "HTTP " \o ToString(status)
    IN  /\ loop_span' =
              SetStatus(SetAttribute(StatusNoted(loop_span, status),
                                     "error.message", error_message),
                        "ERROR",
                        "PokeAPI request failed with status " \o ToString(status))
        /\ pokemon_fetch_error_counter' =
              Add(pokemon_fetch_error_counter, 1,
                  ("pokemon.id" :> ToString(pokemon_id)))
        /\ UNCHANGED pokemon_fetch_success_counter

\* lines 129-138
HttpErrorRecorded(status) ==
    LET error_message == "HTTP " \o ToString(status)
    IN  /\ loop_span' =
              SetStatus(SetAttribute(StatusNoted(loop_span, status),
                                     "error.message", error_message),
                        "ERROR",
                        "PokeAPI request failed with status " \o ToString(status))
        /\ pokemon_fetch_error_counter' =
              Add(pokemon_fetch_error_counter, 1,
                  ("pokemon.id" :> ToString(pokemon_id))
                  @@ ("http.status_code" :> ToString(status)))
        /\ UNCHANGED pokemon_fetch_success_counter

\* lines 113-116, 128-138: any other status
HttpError ==
    /\ pc = "status"
    /\ response.status_code # 200
    /\ HttpErrorRecorded(response.status_code)
    /\ pc' = "finally"
    /\ UNCHANGED <<startVars, serverVars, interval_env, INTERVAL_SEC, iter, pokemon_id, response, exc,
                   pokemon_fetch_counter, entry, sleeps>>

\* the handler of lines 141-149 without record_exception of line 142
ExceptionNotRecorded(e) ==
    /\ loop_span' = SetStatus(loop_span, "ERROR", "Exception: " \o e.msg)
    /\ pokemon_fetch_error_counter' =
          Add(pokemon_fetch_error_counter, 1,
              ("pokemon.id" :> ToString(pokemon_id))
              @@ ("exception.type" :> e.type))
    /\ UNCHANGED pokemon_fetch_success_counter

\* the handler of lines 141-149 without the counter of line 144
ExceptionUncounted(e) ==
    /\ loop_span' =
          SetStatus(RecordException(loop_span, e), "ERROR", "Exception: " \o e.msg)
    /\ UNCHANGED <<pokemon_fetch_error_counter, pokemon_fetch_success_counter>>

\* lines 141-149
ExceptionRecorded(e) ==
    /\ loop_span' =
          SetStatus(RecordException(loop_span, e), "ERROR", "Exception: " \o e.msg)
    /\ pokemon_fetch_error_counter' =
          Add(pokemon_fetch_error_counter, 1,
              ("pokemon.id" :> ToString(pokemon_id))
              @@ ("exception.type" :> e.type))
    /\ UNCHANGED pokemon_fetch_success_counter

\* a handler that records and raises again: the exception stays in flight
\* through the finally block
HandleExceptionReraises ==
    /\ pc = "except"
    /\ ExceptionRecorded(exc)
    /\ pc' = "finally"
    /\ UNCHANGED <<startVars, serverVars, interval_env, INTERVAL_SEC, iter, pokemon_id, response, exc,
                   pokemon_fetch_counter, entry, sleeps>>

\* lines 140-149: except Exception as e; the exception ends here
HandleException ==
    /\ pc = "except"
    /\ ExceptionRecorded(exc)
    /\ exc' = NoException
    /\ pc' = "finally"
    /\ UNCHANGED <<startVars, serverVars, interval_env, INTERVAL_SEC, iter, pokemon_id, response,
                   pokemon_fetch_counter, entry, sleeps>>

\* a sleep that backs off with the errors counted so far
SleepBackoff == INTERVAL_SEC * (1 + Total(pokemon_fetch_error_counter))

\* line 152, the duration time.sleep is called with
SleepDuration == INTERVAL_SEC

\* lines 151-152: the finally block; the sleep returns
Sleep ==
    /\ pc = "finally"
    /\ SleepDuration >= 0
    /\ sleeps' = Append(sleeps, SleepDuration)
    /\ pc' = "exit"
    /\ UNCHANGED <<startVars, serverVars, interval_env, INTERVAL_SEC, iter, loop_span, pokemon_id,
                   response, exc, pokemon_fetch_counter,
                   pokemon_fetch_success_counter, pokemon_fetch_error_counter,
                   entry>>

\* lines 151-152: time.sleep raises on a negative duration, out of the finally
SleepRaises ==
    /\ pc = "finally"
    /\ SleepDuration < 0
    /\ exc' = SleepError
    /\ pc' = "exit"
    /\ UNCHANGED <<startVars, serverVars, interval_env, INTERVAL_SEC, iter, loop_span, pokemon_id,
                   response, pokemon_fetch_counter, pokemon_fetch_success_counter,
                   pokemon_fetch_error_counter, entry, sleeps>>

\* a span ended by hand after the block: an exception passing through skips it
SpanEndedOnReturnOnly(span, e) ==
    IF e = NoException THEN [span EXCEPT !.open = FALSE] ELSE span

\* line 100, leaving the with block: the span ends; an exception passing
\* through is recorded on it, sets ERROR and goes on to end the process
SpanEnded(span, e) ==
    IF e = NoException THEN [span EXCEPT !.open = FALSE]
    ELSE [SetStatus(RecordException(span, e), "ERROR", e.type \o ": " \o e.msg)
            EXCEPT !.open = FALSE]

EndSpan ==
    /\ pc = "exit"
    /\ loop_span' = SpanEnded(loop_span, exc)
    /\ pc' = IF exc = NoException THEN "loop" ELSE "crashed"
    /\ UNCHANGED <<startVars, serverVars, interval_env, INTERVAL_SEC, iter, pokemon_id, response, exc,
                   pokemon_fetch_counter, pokemon_fetch_success_counter,
                   pokemon_fetch_error_counter, entry, sleeps>>

(***************************************************************************)
(* Server: the catch handler, one thread per request, and the heartbeat    *)
(***************************************************************************)
\* line 91, the default of INTERVAL_SEC, as text
DefaultHeartbeat == <<"1", "0">>
\* the ids requests arrive with
CatchIds == {7, 25}
Requests == 1..MaxRequests

ServerInit ==
    /\ main_pc = "startup"
    /\ interval_env \in IntervalEnvs
    /\ hb_interval = 0
    /\ rpc = [r \in Requests |-> "waiting"]
    /\ pkmn_id = [r \in Requests |-> 0]
    /\ caught = [r \in Requests |-> FALSE]
    /\ log = [r \in Requests |-> "none"]
    /\ current_span = [r \in Requests |-> "none"]
    /\ returned = [r \in Requests |-> "none"]
    /\ pokemon_catch_attempt_counter = <<>>
    /\ pokemon_catch_success_counter = <<>>
    /\ pokemon_catch_failure_counter = <<>>
    /\ server_log = <<>>
    /\ hb_pc = "unstarted"
    /\ hb_ticks = 0
    /\ hb_sleeps = <<>>

mainVars    == <<main_pc, hb_interval>>
requestVars == <<rpc, pkmn_id, caught, log, current_span, returned>>
catchCounters == <<pokemon_catch_attempt_counter, pokemon_catch_success_counter,
                   pokemon_catch_failure_counter>>
heartbeatVars == <<hb_pc, hb_ticks, hb_sleeps>>
otherServices == <<startVars, pc, INTERVAL_SEC, iter, loop_span, pokemon_id,
                   response, exc, pokemon_fetch_counter,
                   pokemon_fetch_success_counter, pokemon_fetch_error_counter,
                   entry, sleeps>>

\* line 91: INTERVAL_SEC = int(os.getenv("INTERVAL_SEC", "10"))
HeartbeatIntervalRead ==
    LET text == IF interval_env = "unset" THEN DefaultHeartbeat ELSE interval_env
    IN  IF IsIntText(text)
        THEN hb_interval' = ParseInt(text) /\ main_pc' = "main"
        ELSE hb_interval' = hb_interval /\ main_pc' = "crashed"

ServerReadInterval ==
    /\ main_pc = "startup"
    /\ HeartbeatIntervalRead
    /\ UNCHANGED <<interval_env, requestVars, catchCounters, server_log,
                   heartbeatVars, otherServices>>

\* lines 128-131: start the heartbeat thread, then serve
ServerStart ==
    /\ main_pc = "main"
    /\ hb_pc' = "tick"
    /\ main_pc' = "serving"
    /\ UNCHANGED <<interval_env, hb_interval, requestVars, catchCounters,
                   server_log, hb_ticks, hb_sleeps, otherServices>>

\* line 100: a request GET /catch/<id> is dispatched to a thread, inside the
\* request span the Flask instrumentation opened
Arrive(r) ==
    /\ main_pc = "serving"
    /\ rpc[r] = "waiting"
    /\ \E id \in CatchIds : pkmn_id' = [pkmn_id EXCEPT ![r] = id]
    /\ current_span' = [current_span EXCEPT ![r] = NewSpan]
    /\ rpc' = [rpc EXCEPT ![r] = "draw"]
    /\ UNCHANGED <<interval_env, mainVars, caught, log, returned, catchCounters,
                   server_log, heartbeatVars, otherServices>>

\* lines 102-110 drawing a second time for the log record
DrawnAgainForLog(r, c) ==
    /\ caught' = [caught EXCEPT ![r] = c]
    /\ \E c2 \in BOOLEAN :
          log' = [log EXCEPT ![r] = [pokemon_id |-> pkmn_id[r], caught |-> c2]]
    /\ current_span' =
          [current_span EXCEPT ![r] =
              SetAttribute(SetAttribute(@, "pokemon.id.caught", pkmn_id[r]),
                           "pokemon.caught_result", c)]

\* lines 102-110 with the outcome c of random.random() < 0.5
Drawn(r, c) ==
    /\ caught' = [caught EXCEPT ![r] = c]
    /\ log' = [log EXCEPT ![r] = [pokemon_id |-> pkmn_id[r], caught |-> c]]
    /\ current_span' =
          [current_span EXCEPT ![r] =
              SetAttribute(SetAttribute(@, "pokemon.id.caught", pkmn_id[r]),
                           "pokemon.caught_result", c)]

Draw(r) ==
    /\ rpc[r] = "draw"
    /\ \E c \in BOOLEAN : Drawn(r, c)
    /\ rpc' = [rpc EXCEPT ![r] = "attempt"]
    /\ UNCHANGED <<interval_env, mainVars, pkmn_id, returned, catchCounters,
                   server_log, heartbeatVars, otherServices>>

\* line 112 moved under the test of line 113
AttemptCountedIfCaught(r) ==
    IF caught[r]
    THEN pokemon_catch_attempt_counter' =
            Add(pokemon_catch_attempt_counter, 1,
                ("pokemon.id" :> ToString(pkmn_id[r])))
    ELSE UNCHANGED pokemon_catch_attempt_counter

\* line 112
AttemptCounted(r) ==
    pokemon_catch_attempt_counter' =
        Add(pokemon_catch_attempt_counter, 1, ("pokemon.id" :> ToString(pkmn_id[r])))

CountAttempt(r) ==
    /\ rpc[r] = "attempt"
    /\ AttemptCounted(r)
    /\ rpc' = [rpc EXCEPT ![r] = "outcome"]
    /\ UNCHANGED <<interval_env, mainVars, pkmn_id, caught, log, current_span,
                   returned, pokemon_catch_success_counter,
                   pokemon_catch_failure_counter, server_log, heartbeatVars,
                   otherServices>>

\* lines 113-116 with the test of line 113 dropped: both counters move
OutcomeCountedTwice(r) ==
    /\ pokemon_catch_success_counter' =
          Add(pokemon_catch_success_counter, 1, ("pokemon.id" :> ToString(pkmn_id[r])))
    /\ pokemon_catch_failure_counter' =
          Add(pokemon_catch_failure_counter, 1, ("pokemon.id" :> ToString(pkmn_id[r])))

\* lines 113-116
OutcomeCounted(r) ==
    IF caught[r]
    THEN /\ pokemon_catch_success_counter' =
              Add(pokemon_catch_success_counter, 1,
                  ("pokemon.id" :> ToString(pkmn_id[r])))
         /\ UNCHANGED pokemon_catch_failure_counter
    ELSE /\ pokemon_catch_failure_counter' =
              Add(pokemon_catch_failure_counter, 1,
                  ("pokemon.id" :> ToString(pkmn_id[r])))
         /\ UNCHANGED pokemon_catch_success_counter

CountOutcome(r) ==
    /\ rpc[r] = "outcome"
    /\ OutcomeCounted(r)
    /\ rpc' = [rpc EXCEPT ![r] = "respond"]
    /\ UNCHANGED <<interval_env, mainVars, pkmn_id, caught, log, current_span,
                   returned, pokemon_catch_attempt_counter, server_log,
                   heartbeatVars, otherServices>>

\* lines 119-120: the log record, then the response body; the request span
\* ends when the handler has returned
Respond(r) ==
    /\ rpc[r] = "respond"
    /\ server_log' = Append(server_log, log[r])
    /\ returned' = [returned EXCEPT ![r] = log[r]]
    /\ current_span' = [current_span EXCEPT ![r].open = FALSE]
    /\ rpc' = [rpc EXCEPT ![r] = "done"]
    /\ UNCHANGED <<interval_env, mainVars, pkmn_id, caught, log, catchCounters,
                   heartbeatVars, otherServices>>

\* a heartbeat that counts its tick on the attempts counter
TickCounted ==
    /\ hb_pc = "tick"
    /\ hb_ticks < MaxTicks
    /\ hb_ticks' = hb_ticks + 1
    /\ server_log' = Append(server_log, [heartbeat |-> hb_ticks + 1])
    /\ pokemon_catch_attempt_counter' =
          Add(pokemon_catch_attempt_counter, 1, ("pokemon.id" :> "heartbeat"))
    /\ hb_pc' = "sleep"
    /\ UNCHANGED <<interval_env, mainVars, requestVars,
                   pokemon_catch_success_counter, pokemon_catch_failure_counter,
                   hb_sleeps, otherServices>>

\* line 125: one heartbeat record
Tick ==
    /\ hb_pc = "tick"
    /\ hb_ticks < MaxTicks
    /\ hb_ticks' = hb_ticks + 1
    /\ server_log' = Append(server_log, [heartbeat |-> hb_ticks + 1])
    /\ hb_pc' = "sleep"
    /\ UNCHANGED <<interval_env, mainVars, requestVars, catchCounters, hb_sleeps,
                   otherServices>>

\* line 126: time.sleep(INTERVAL_SEC) returns
HeartbeatSleep ==
    /\ hb_pc = "sleep"
    /\ hb_interval >= 0
    /\ hb_sleeps' = Append(hb_sleeps, hb_interval)
    /\ hb_pc' = "tick"
    /\ UNCHANGED <<interval_env, mainVars, requestVars, catchCounters,
                   server_log, hb_ticks, otherServices>>

\* line 126: time.sleep raises on a negative duration and the thread ends
HeartbeatSleepRaises ==
    /\ hb_pc = "sleep"
    /\ hb_interval < 0
    /\ hb_pc' = "dead"
    /\ UNCHANGED <<interval_env, mainVars, requestVars, catchCounters,
                   server_log, hb_ticks, hb_sleeps, otherServices>>

(***************************************************************************)
(* The specifications                                                      *)
(***************************************************************************)
\* a service whose start-up found no override text
StartDone ==
    /\ start_pc = "telemetry"
    /\ service_name \in ServiceNames
    /\ resource_env_vars = <<>>
    /\ resource_attributes = Defaults(service_name)
    /\ pair_i = 0
    /\ warnings = <<>>
    /\ resource = Defaults(service_name)

PollerOff ==
    /\ pc = "off"
    /\ interval_env = "unset"
    /\ INTERVAL_SEC = 0
    /\ iter = 0
    /\ loop_span = NoSpan
    /\ pokemon_id = 0
    /\ response = NoResponse
    /\ exc = NoException
    /\ pokemon_fetch_counter = <<>>
    /\ pokemon_fetch_success_counter = <<>>
    /\ pokemon_fetch_error_counter = <<>>
    /\ entry = [count |-> 0, success |-> 0, error |-> 0]
    /\ sleeps = <<>>

ServerOff ==
    /\ main_pc = "off"
    /\ hb_interval = 0
    /\ rpc = [r \in Requests |-> "waiting"]
    /\ pkmn_id = [r \in Requests |-> 0]
    /\ caught = [r \in Requests |-> FALSE]
    /\ log = [r \in Requests |-> "none"]
    /\ current_span = [r \in Requests |-> "none"]
    /\ returned = [r \in Requests |-> "none"]
    /\ pokemon_catch_attempt_counter = <<>>
    /\ pokemon_catch_success_counter = <<>>
    /\ pokemon_catch_failure_counter = <<>>
    /\ server_log = <<>>
    /\ hb_pc = "unstarted"
    /\ hb_ticks = 0
    /\ hb_sleeps = <<>>

\* ---- start-up
ResolverInit == StartInit /\ PollerOff /\ ServerOff
ResolverNext ==
    \/ LoadDefaults
    \/ ApplyPair
    \/ ParseFailed
    \/ BuildResource
ResolverSpec == ResolverInit /\ [][ResolverNext]_vars

\* ---- poller
Init ==
    /\ StartDone /\ service_name = <<"pokemon-pinger-default">>
    /\ PollerInit
    /\ ServerOff
Next ==
    \/ ReadInterval
    \/ StartSpan
    \/ ChooseId
    \/ GetReturns
    \/ GetRaises
    \/ FetchSucceeded
    \/ ParseRaises
    \/ HttpError
    \/ HandleException
    \/ Sleep
    \/ SleepRaises
    \/ EndSpan
Spec == Init /\ [][Next]_vars
\* the poller is one thread that runs whenever it can take a step
LiveSpec == Spec /\ WF_vars(Next)

\* ---- server
ServerInitAll ==
    /\ StartDone /\ service_name = <<"pokemon-catcher-default">>
    /\ ServerInit
    /\ pc = "off" /\ INTERVAL_SEC = 0 /\ iter = 0 /\ loop_span = NoSpan
    /\ pokemon_id = 0 /\ response = NoResponse /\ exc = NoException
    /\ pokemon_fetch_counter = <<>> /\ pokemon_fetch_success_counter = <<>>
    /\ pokemon_fetch_error_counter = <<>>
    /\ entry = [count |-> 0, success |-> 0, error |-> 0] /\ sleeps = <<>>
ServerNext ==
    \/ ServerReadInterval
    \/ ServerStart
    \/ \E r \in Requests : Arrive(r)
    \/ \E r \in Requests : Draw(r)
    \/ \E r \in Requests : CountAttempt(r)
    \/ \E r \in Requests : CountOutcome(r)
    \/ \E r \in Requests : Respond(r)
    \/ Tick
    \/ HeartbeatSleep
    \/ HeartbeatSleepRaises
ServerSpec == ServerInitAll /\ [][ServerNext]_vars

\* ---- either service: the image runs one of the two programs
ServicesInit == Init \/ ServerInitAll
ServicesNext == Next \/ ServerNext
ServicesSpec == ServicesInit /\ [][ServicesNext]_vars

(***************************************************************************)
(* Properties                                                              *)
(***************************************************************************)
\* positions of the poller at which the try/except of the current Work Unit
\* is behind it
WorkUnitOver == iter > 0 /\ pc \in {"finally", "exit", "loop", "crashed"}

\* C1: whatever the outcome of a Work Unit (200, another status, an exception
\* from the network call or from parsing), once its try/except is over the
\* attempt counter stands exactly 1 above its value at the start of the Work
\* Unit, and exactly one of the success and error counters stands exactly 1
\* above its value at the start, the other unchanged.
C1_OneAttemptOneOutcome ==
    WorkUnitOver =>
        /\ Totals.count = entry.count + 1
        /\ \/ Totals.success = entry.success + 1 /\ Totals.error = entry.error
           \/ Totals.success = entry.success /\ Totals.error = entry.error + 1

\* a second Work Unit is over, one of the two succeeded and the other ended
\* in the exception handler
C1_Witness ==
    /\ pc = "loop" /\ iter = 2
    /\ Totals.success = 1 /\ Totals.error = 1
    /\ \E i \in 1..Len(pokemon_fetch_error_counter) :
          "exception.type" \in DOMAIN pokemon_fetch_error_counter[i].attributes

\* requests whose handler is past line 112, past lines 113-116
PastAttempt == {r \in Requests : rpc[r] \in {"outcome", "respond", "done"}}
PastOutcome == {r \in Requests : rpc[r] \in {"respond", "done"}}

\* C2: every call of catch adds exactly 1 to pokemon.catch.attempts and
\* exactly 1 to one of pokemon.catch.success / pokemon.catch.failures, the
\* success counter exactly when the outcome drawn for that call is true: at
\* any moment each counter equals the number of calls that have passed its
\* increment (with the matching outcome).
C2_CatchCounts ==
    /\ Total(pokemon_catch_attempt_counter) = Cardinality(PastAttempt)
    /\ Total(pokemon_catch_success_counter) =
          Cardinality({r \in PastOutcome : caught[r]})
    /\ Total(pokemon_catch_failure_counter) =
          Cardinality({r \in PastOutcome : ~caught[r]})

\* two calls have returned, one caught and one not
C2_Witness ==
    /\ \A r \in Requests : r <= 2 => rpc[r] = "done"
    /\ \E r1, r2 \in Requests : caught[r1] /\ ~caught[r2]

\* ---- the resource attributes, stated on the override text itself
HasEquals(p) == \E j \in 1..Len(p) : p[j] = Equals
FirstEquals(p) ==
    CHOOSE j \in 1..Len(p) : p[j] = Equals /\ \A h \in 1..(j - 1) : p[h] # Equals
\* t without the spaces at its two ends
Trimmed(t) ==
    LET solid == {i \in 1..Len(t) : t[i] # Space}
    IN  IF solid = {} THEN <<>>
        ELSE SubSeq(t, CHOOSE i \in solid : \A h \in solid : i <= h,
                       CHOOSE i \in solid : \A h \in solid : h <= i)
KeyOf(p) == Trimmed(SubSeq(p, 1, FirstEquals(p) - 1))
ValueOf(p) == Trimmed(SubSeq(p, FirstEquals(p) + 1, Len(p)))

\* the pairs of the override text; the empty text has none
PairIndices == IF resource_env_vars = <<>> THEN {} ELSE 1..Len(Pairs)
Malformed == {i \in PairIndices : ~HasEquals(Pairs[i])}
FirstMalformed == CHOOSE i \in Malformed : \A h \in Malformed : i <= h

\* result is the defaults overlaid with the pairs whose indices are in I,
\* taken left to right: an override wins over a default, a later pair over
\* an earlier one with the same key
Overlaid(result, I) ==
    /\ DOMAIN result =
          {SERVICE_NAME, DEPLOYMENT_ENVIRONMENT} \cup {KeyOf(Pairs[i]) : i \in I}
    /\ \A k \in DOMAIN result :
          LET using == {i \in I : KeyOf(Pairs[i]) = k}
          IN  IF using = {}
              THEN result[k] = IF k = SERVICE_NAME THEN service_name
                               ELSE deployment_environment
              ELSE result[k] =
                      ValueOf(Pairs[CHOOSE i \in using : \A h \in using : h <= i])

Resolved == start_pc = "telemetry"

\* C3 as stated: a malformed pair is skipped alone, every well-formed pair
\* before or after it is applied to the result.
C3_OnlyMalformedSkipped ==
    Resolved => Overlaid(resource, PairIndices \ Malformed)

\* C3, amended: when the override text holds a malformed pair, the
\* well-formed pairs before the first malformed pair are applied, and the
\* first malformed pair and every pair after it, well-formed or not, are not.
C3_PairsBeforeFirstMalformed ==
    (Resolved /\ Malformed # {}) =>
        Overlaid(resource, {i \in PairIndices : i < FirstMalformed})

\* a pair was applied, then a malformed pair stopped the loop in front of a
\* well-formed pair
C3_Witness ==
    /\ Resolved
    /\ Len(Pairs) = 3
    /\ HasEquals(Pairs[1]) /\ ~HasEquals(Pairs[2]) /\ HasEquals(Pairs[3])
    /\ KeyOf(Pairs[1]) \in DOMAIN resource

\* C4: for an override text of well-formed pairs only, the result is the
\* defaults overlaid with all the pairs left to right, each cut at its first
\* "=", key and value trimmed, an override winning over a default and a
\* later pair over an earlier one.
C4_WellFormedOverlay ==
    (Resolved /\ Malformed = {}) => Overlaid(resource, PairIndices)

\* two pairs with the same key and different values, the later one kept
C4_Witness ==
    /\ Resolved /\ Malformed = {}
    /\ Len(Pairs) = 2
    /\ KeyOf(Pairs[1]) = KeyOf(Pairs[2])
    /\ ValueOf(Pairs[1]) # ValueOf(Pairs[2])
    /\ resource[KeyOf(Pairs[2])] = ValueOf(Pairs[2])

\* C5: for every override text the resolution never ends the start-up: the
\* start-up is only ever on its way to the telemetry set-up (in the loop it
\* always has a pair to go on with, and nothing aborts it), and the result it
\* hands over holds service.name and deployment.environment.
C5_ResolutionNeverFatal ==
    /\ start_pc \in {"defaults", "pairs", "resource", "telemetry"}
    /\ start_pc = "pairs" => pair_i \in 1..Len(Pairs)
    /\ Resolved => {SERVICE_NAME, DEPLOYMENT_ENVIRONMENT} \subseteq DOMAIN resource

\* the set-up is reached after a malformed pair logged its warning
C5_Witness ==
    /\ Resolved /\ Malformed # {} /\ Len(warnings) = 1
    /\ SERVICE_NAME \in DOMAIN resource

\* ---- the poller's outcomes
Last(counter) == counter[Len(counter)]
\* the try block has just ended in the branch of a status other than 200
AfterHttpError == pc = "finally" /\ response.status_code \notin {0, 200}

\* C6 as stated: for a status s other than 200 the span is marked ERROR with
\* the message "HTTP <s>", the error counter moves once, labelled with the id
\* and str(s), the success counter does not move and nothing is raised.
C6_HttpErrorMessage ==
    AfterHttpError =>
        /\ loop_span.status =
              [code |-> "ERROR",
               description |-> "HTTP " \o ToString(response.status_code)]
        /\ Totals.error = entry.error + 1
        /\ Last(pokemon_fetch_error_counter).attributes =
              ("pokemon.id" :> ToString(pokemon_id))
              @@ ("http.status_code" :> ToString(response.status_code))
        /\ Totals.success = entry.success
        /\ exc = NoException

\* C6, amended: for a status s other than 200 the span carries the attribute
\* error.message = "HTTP <s>" and is marked ERROR with the description
\* "PokeAPI request failed with status <s>"; the error counter moves once,
\* labelled with the id and str(s), the success counter does not move and
\* nothing is raised.
C6_HttpErrorRecorded ==
    AfterHttpError =>
        /\ loop_span.attributes["error.message"] =
              "HTTP " \o ToString(response.status_code)
        /\ loop_span.status =
              [code |-> "ERROR",
               description |-> "PokeAPI request failed with status "
                               \o ToString(response.status_code)]
        /\ Totals.error = entry.error + 1
        /\ Last(pokemon_fetch_error_counter).attributes =
              ("pokemon.id" :> ToString(pokemon_id))
              @@ ("http.status_code" :> ToString(response.status_code))
        /\ Totals.success = entry.success
        /\ exc = NoException

\* a 404 has been handled
C6_Witness ==
    /\ AfterHttpError /\ response.status_code = 404
    /\ loop_span.attributes["error.message"] = "HTTP 404"
    /\ Last(pokemon_fetch_error_counter).attributes["http.status_code"] = "404"

\* C7: an exception raised inside the Work Unit (by the network call or by
\* parsing a 200 body) always reaches the handler, and the handler's step
\* records it on the span, marks the span ERROR with a description carrying
\* the exception's message ("Exception: <message>"), adds 1 to the error
\* counter labelled with the id and the exception's type, leaves the success
\* counter alone and ends the exception: the Work Unit goes on to its
\* finally block with no exception in flight.
C7_ExceptionHandled ==
    [][ /\ (pc \in {"get", "status"} /\ exc' # NoException) => pc' = "except"
        /\ pc = "except" =>
             /\ pc' = "finally" /\ exc' = NoException
             /\ loop_span'.events =
                   Append(loop_span.events,
                          [name |-> "exception", type |-> exc.type,
                           message |-> exc.msg])
             /\ loop_span'.status =
                   [code |-> "ERROR", description |-> "Exception: " \o exc.msg]
             /\ pokemon_fetch_error_counter' =
                   Append(pokemon_fetch_error_counter,
                          [amount |-> 1,
                           attributes |-> ("pokemon.id" :> ToString(pokemon_id))
                                          @@ ("exception.type" :> exc.type)])
             /\ UNCHANGED pokemon_fetch_success_counter ]_vars

\* a timeout and a parse failure have both been handled
C7_Witness ==
    /\ pc = "finally" /\ iter = 2
    /\ Len(pokemon_fetch_error_counter) = 2
    /\ \A i \in 1..2 :
          "exception.type" \in DOMAIN pokemon_fetch_error_counter[i].attributes
    /\ pokemon_fetch_error_counter[1].attributes["exception.type"] = "ReadTimeout"
    /\ pokemon_fetch_error_counter[2].attributes["exception.type"] = "JSONDecodeError"
    /\ loop_span.status.code = "ERROR"

\* sleeps that have returned when the poller is where it is: one per Work
\* Unit started, but for the current one while its sleep is still ahead or
\* when its sleep raised
SleepsDue ==
    IF pc \in {"try", "get", "status", "except", "finally"} THEN iter - 1
    ELSE IF pc \in {"exit", "crashed"} /\ iter > 0 /\ exc = SleepError THEN iter - 1
    ELSE iter

\* C8: between the starts of two consecutive Work Units exactly one sleep
\* occurs, whatever the outcome of the first, and every sleep lasts
\* INTERVAL_SEC whatever happened before it.
C8_OneFixedSleepPerWorkUnit ==
    /\ Len(sleeps) = SleepsDue
    /\ \A i \in 1..Len(sleeps) : sleeps[i] = INTERVAL_SEC

\* a Work Unit that failed was followed by one sleep and the next Work Unit
C8_Witness ==
    /\ pc = "try" /\ iter = 2
    /\ Totals.error = 1 /\ Totals.success = 0
    /\ sleeps = <<INTERVAL_SEC>> /\ INTERVAL_SEC > 0

\* C9: the loop never ends while the sleep returns (the interval is not
\* negative): the poller stops only at start-up or in a sleep that raised,
\* and every Work Unit, whatever its outcome, is followed by its sleep and
\* then by the start of the next Work Unit (as far as the model counts them).
C9_LoopGoesOn ==
    /\ [](pc = "crashed" => (iter = 0 \/ INTERVAL_SEC < 0))
    /\ \A n \in 1..(MaxIter - 1) :
          (iter = n /\ pc \in {"try", "get", "status", "except", "finally"}
                    /\ INTERVAL_SEC >= 0)
             ~> (iter = n + 1 /\ pc = "try" /\ Len(sleeps) = n)

\* the network call timed out, the loop slept and began another Work Unit
C9_Witness ==
    /\ pc = "try" /\ iter = 2 /\ Len(sleeps) = 1
    /\ Len(pokemon_fetch_error_counter) = 1
    /\ "exception.type" \in DOMAIN pokemon_fetch_error_counter[1].attributes
    /\ pokemon_fetch_error_counter[1].attributes["exception.type"] = "ReadTimeout"

\* C10: once the with block of a Work Unit is left, by its end or by an
\* exception, the span is closed, its status is OK or ERROR, OK exactly when
\* the Work Unit added to the success counter and ERROR exactly when it added
\* to the error counter.
C10_SpanClosedWithOutcome ==
    (iter > 0 /\ pc \in {"loop", "crashed"}) =>
        /\ ~loop_span.open
        /\ loop_span.status.code \in {"OK", "ERROR"}
        /\ loop_span.status.code = "OK" <=> Totals.success = entry.success + 1
        /\ loop_span.status.code = "ERROR" <=> Totals.error = entry.error + 1

\* the with block was left by the exception of a sleep after a success
C10_Witness ==
    /\ pc = "crashed" /\ iter = 1
    /\ ~loop_span.open
    /\ loop_span.status.code = "OK"
    /\ Totals.success = 1

\* ---- the server's handler
\* the adds on a counter that carry the label of id
LabelledWith(counter, id) ==
    {i \in 1..Len(counter) : counter[i].attributes = ("pokemon.id" :> ToString(id))}
IsCatchRecord(rec) == DOMAIN rec = {"pokemon_id", "caught"}

\* C11: a call of catch never ends anywhere but in its return, and the body
\* it returns holds the path parameter as pokemon_id and, as caught, the one
\* outcome drawn by that call: the value attached to the span, the value
\* that chose the counter, and the value written to the log record.
C11_BodyHoldsIdAndOutcome ==
    /\ \A r \in Requests :
          rpc[r] \in {"waiting", "draw", "attempt", "outcome", "respond", "done"}
    /\ \A r \in Requests : rpc[r] = "done" =>
          /\ returned[r] = [pokemon_id |-> pkmn_id[r], caught |-> caught[r]]
          /\ current_span[r].attributes["pokemon.caught_result"] = returned[r].caught
          /\ current_span[r].attributes["pokemon.id.caught"] = returned[r].pokemon_id
    /\ \A id \in CatchIds, c \in BOOLEAN :
          LET finished == {r \in Requests : /\ rpc[r] = "done"
                                            /\ returned[r].pokemon_id = id
                                            /\ returned[r].caught = c}
              counted == LabelledWith(IF c THEN pokemon_catch_success_counter
                                      ELSE pokemon_catch_failure_counter, id)
              logged == {i \in 1..Len(server_log) :
                            /\ IsCatchRecord(server_log[i])
                            /\ server_log[i].pokemon_id = id
                            /\ server_log[i].caught = c}
          IN  /\ Cardinality(finished) = Cardinality(logged)
              /\ Cardinality(finished) <= Cardinality(counted)

\* a call for id 25 has returned a body saying caught
C11_Witness ==
    \E r \in Requests :
        /\ rpc[r] = "done" /\ pkmn_id[r] = 25
        /\ returned[r] = [pokemon_id |-> 25, caught |-> TRUE]
        /\ Len(pokemon_catch_success_counter) >= 1

\* requests that have arrived, that have returned
Arrived == {r \in Requests : rpc[r] # "waiting"}
Completed == {r \in Requests : rpc[r] = "done"}
CatchTotals == <<Total(pokemon_catch_attempt_counter),
                 Total(pokemon_catch_success_counter),
                 Total(pokemon_catch_failure_counter)>>

\* C12: under every interleaving of the request threads and the heartbeat,
\* no catch counter ever decreases, and whenever all the N requests that
\* arrived have completed, pokemon.catch.attempts stands at N and
\* pokemon.catch.success + pokemon.catch.failures stands at N.
C12_NoLostUpdates ==
    /\ [](Arrived = Completed =>
            /\ CatchTotals[1] = Cardinality(Completed)
            /\ CatchTotals[2] + CatchTotals[3] = Cardinality(Completed))
    /\ [][\A k \in 1..3 : CatchTotals[k]' >= CatchTotals[k]]_vars

\* two requests ran together with the heartbeat and both completed
C12_Witness ==
    /\ Cardinality(Completed) = 2 /\ Arrived = Completed
    /\ hb_ticks >= 1
    /\ CatchTotals[1] = 2

\* ---- the heartbeat
\* C13 as stated: once the server is serving, the heartbeat thread is for
\* ever either about to emit a tick or sleeping: whatever the requests do,
\* it never ends.
C13_HeartbeatNeverEnds ==
    main_pc = "serving" => hb_pc \in {"tick", "sleep"}

\* a step of the heartbeat thread
HeartbeatStep ==
    hb_pc \in {"tick", "sleep"} /\ <<hb_pc, hb_ticks, hb_sleeps>>' # <<hb_pc, hb_ticks, hb_sleeps>>

\* C14: every step of the heartbeat thread (emitting a tick, sleeping, or
\* ending in a sleep that raised) leaves the three catch counters, every
\* request's span and handler state, and the resource attributes unchanged.
C14_HeartbeatFrame ==
    [][HeartbeatStep =>
          UNCHANGED <<catchCounters, requestVars, resource, resource_attributes>>]_vars

\* the heartbeat has ticked and slept while a request stood between its
\* two counter increments
C14_Witness ==
    /\ hb_ticks = 1 /\ Len(hb_sleeps) = 1
    /\ \E r \in Requests : rpc[r] = "outcome" /\ current_span[r].open
    /\ Len(pokemon_catch_attempt_counter) = 1

\* ---- the poller's ordering
\* C15 as stated: the span of a Work Unit is closed when the Work Unit's
\* try/except is over, before the pacing sleep begins: no span is open from
\* the moment the sleep is about to start until it has returned.
C15_SpanClosedBeforeSleep ==
    pc \in {"finally", "exit"} => ~loop_span.open

\* C16: the attempt counter moves only in the step that has just chosen the
\* id, by one add labelled with that id, while no network call of the Work
\* Unit has been made yet; as long as no id is chosen in a Work Unit
\* (pokemon_id is still 0) the attempt counter stands where the Work Unit
\* found it, and the network call is made only with the attempt counted.
C16_AttemptAfterIdBeforeCall ==
    /\ [](iter > 0 =>
            /\ pokemon_id = 0 => Totals.count = entry.count
            /\ pc = "get" =>
                  /\ pokemon_id \in MinId..MaxId
                  /\ Totals.count = entry.count + 1
                  /\ response = NoResponse
            /\ response # NoResponse => Totals.count = entry.count + 1)
    /\ [][pokemon_fetch_counter' # pokemon_fetch_counter =>
             /\ pc = "try" /\ pc' = "get"
             /\ pokemon_id' \in MinId..MaxId
             /\ pokemon_fetch_counter' =
                   Append(pokemon_fetch_counter,
                          [amount |-> 1,
                           attributes |-> ("pokemon.id" :> ToString(pokemon_id'))])]_vars

\* the second Work Unit has chosen id 300 and counted its attempt; the call
\* is still ahead
C16_Witness ==
    /\ pc = "get" /\ iter = 2 /\ pokemon_id = 300
    /\ Len(pokemon_fetch_counter) = 2
    /\ pokemon_fetch_counter[2].attributes["pokemon.id"] = "300"
    /\ response = NoResponse

\* C17 as stated: the interval is read once at start-up (default 30 in the
\* poller, 10 in the server), stays the same, and every sleep of either
\* service is given that value, a positive integer.
C17_PositiveFixedInterval ==
    /\ pc \notin {"off", "startup", "crashed"} =>
          /\ INTERVAL_SEC > 0
          /\ interval_env = "unset" => INTERVAL_SEC = DefaultInterval
    /\ \A i \in 1..Len(sleeps) : sleeps[i] = INTERVAL_SEC /\ sleeps[i] > 0
    /\ main_pc \in {"main", "serving"} =>
          /\ hb_interval > 0
          /\ interval_env = "unset" => hb_interval = ParseInt(DefaultHeartbeat)
    /\ \A i \in 1..Len(hb_sleeps) : hb_sleeps[i] = hb_interval /\ hb_sleeps[i] > 0

\* ---- attempts against outcomes
\* Work Units of the poller that have counted neither outcome yet
PollerInProgress == IF pc \in {"try", "get", "status", "except"} THEN 1 ELSE 0
\* requests of the server between their arrival and their response
CatchesInProgress ==
    Cardinality({r \in Requests : rpc[r] \in {"draw", "attempt", "outcome", "respond"}})

\* C18: in every state of either service the attempt counter is at least
\* the success counter plus the error (poller) or failure (server) counter,
\* and exceeds that sum by at most the number of Work Units in progress,
\* which is at most 1 in the poller.
C18_AttemptsCoverOutcomes ==
    /\ Totals.count - (Totals.success + Totals.error) \in 0..PollerInProgress
    /\ CatchTotals[1] - (CatchTotals[2] + CatchTotals[3]) \in 0..CatchesInProgress

\* two requests have counted their attempts and neither its outcome
C18_Witness ==
    /\ \A r \in Requests : rpc[r] = "outcome"
    /\ CatchTotals[1] = 2 /\ CatchTotals[2] + CatchTotals[3] = 0

\* ---- the resolver on every non-empty override text
PrecedingFirstMalformed ==
    IF Malformed = {} THEN PairIndices ELSE {i \in PairIndices : i < FirstMalformed}

\* C19: for every non-empty override text the result is the defaults
\* overlaid, left to right, with exactly the pairs before the first
\* malformed pair (all of them if none is malformed); when a malformed pair
\* is present exactly one warning is logged, and the step that logs it
\* leaves the pairs applied so far in place.
C19_PrefixOverlayOneWarning ==
    /\ []((Resolved /\ resource_env_vars # <<>>) =>
            /\ Overlaid(resource, PrecedingFirstMalformed)
            /\ Malformed # {} => Len(warnings) = 1)
    /\ [][warnings' # warnings =>
             /\ resource_attributes' = resource_attributes
             /\ Len(warnings') = 1]_vars

\* the second of two pairs is malformed; the first, a key of its own, is in
\* the result and one warning is logged
C19_Witness ==
    /\ Resolved /\ Len(Pairs) = 2 /\ FirstMalformed = 2
    /\ Len(warnings) = 1
    /\ KeyOf(Pairs[1]) \notin DOMAIN Defaults(service_name)
    /\ KeyOf(Pairs[1]) \in DOMAIN resource
    /\ resource[KeyOf(Pairs[1])] = ValueOf(Pairs[1])

====
